---- MODULE Spec2Model ----
(***************************************************************************)
(* A model of utils.py of audioset-processing: the label resolver          *)
(* (get_label_id), the dataset filter (create_csv), the identifier grouper *)
(* (get_yt_ids), the file organizer (sort_files) and the two drivers find  *)
(* and download.                                                           *)
(*                                                                         *)
(* Python strings are sequences of one-character strings, so that `in`     *)
(* (substring containment) and lower() are computed, not assumed.  A       *)
(* Python call that raises is a result record with ok = FALSE and the      *)
(* exception's name.                                                       *)
(***************************************************************************)
EXTENDS Integers, Sequences, FiniteSets, TLC

VARIABLES
    table,      \* ./data/class_labels_indices.csv: sequence of [id, display_name]
    dataset,    \* args.csv_dataset: sequence of [yt, start, labels]
    fs,         \* the raw-audio and destination directories
    csvOut,     \* ./data/<class_name>.csv as written by create_csv
    sys,        \* the os.system invocations: [log, running]
    pc,         \* position of the running function
    args,       \* arguments of the current call
    ret,        \* its return value or the exception it raised
    local,      \* loop state of find / download
    hist        \* history of earlier sort_files calls (for the re-run claims)

vars == <<table, dataset, fs, csvOut, sys, pc, args, ret, local, hist>>

None == "-"

(***************************************************************************)
(* Bounds.                                                                 *)
(***************************************************************************)
MaxTable == 2      \* entries of the label-index table (resolver runs)
MaxRows == 2       \* rows of the metadata table
MaxRuns == 2       \* consecutive sort_files calls on one filesystem

(***************************************************************************)
(* Strings.                                                                *)
(***************************************************************************)
\* str.lower() on one character
LowerChar(c) ==
    CASE c = "A" -> "a"
      [] c = "B" -> "b"
      [] OTHER -> c

\* str.lower()
Lower(s) == [i \in DOMAIN s |-> LowerChar(s[i])]

\* Python's  s in t  for two strings
IsSubstring(s, t) ==
    \E k \in 0..(Len(t) - Len(s)) : SubSeq(t, k + 1, k + Len(s)) = s

\* ",".join(ids): the raw label field of a metadata row
RECURSIVE Join(_)
Join(ids) ==
    IF ids = <<>> THEN <<>>
    ELSE IF Len(ids) = 1 THEN ids[1]
    ELSE ids[1] \o <<",">> \o Join(Tail(ids))

Range(f) == {f[x] : x \in DOMAIN f}

SeqsUpTo(S, n) == UNION {[1..k -> S] : k \in 0..n}

(***************************************************************************)
(* Label resolver: get_label_id.                                           *)
(***************************************************************************)
\* the comparison selected by `strict`
StrictMatch(class_name, display_name) == Lower(class_name) = Lower(display_name)

SubstringMatch(class_name, display_name) ==
    IsSubstring(Lower(class_name), Lower(display_name))

NameMatches(class_name, display_name, strict) ==
    IF strict THEN StrictMatch(class_name, display_name)
    ELSE SubstringMatch(class_name, display_name)

\* the list comprehension  [row[id] for row in reader if ...]
RECURSIVE MatchingIds(_, _, _)
MatchingIds(tbl, class_name, strict) ==
    IF tbl = <<>> THEN <<>>
    ELSE (IF NameMatches(class_name, Head(tbl).display_name, strict)
          THEN <<Head(tbl).id>> ELSE <<>>)
         \o MatchingIds(Tail(tbl), class_name, strict)

Ok(v) == [ok |-> TRUE, err |-> None, val |-> v]
Raise(e) == [ok |-> FALSE, err |-> e, val |-> None]

\* `label_ids is None` is never true of a list; with more than one id the
\* list is printed; otherwise  "..." + label_ids  adds a list to a str,
\* which raises TypeError before the return.
get_label_id(tbl, class_name, strict) ==
    LET label_ids == MatchingIds(tbl, class_name, strict)
    IN  IF Len(label_ids) > 1 THEN Ok(label_ids)
        ELSE Raise("TypeError")

(***************************************************************************)
(* Input domains.                                                          *)
(***************************************************************************)
ClassNames == {<<"a">>, <<"A", "b">>, <<"b">>, <<"B">>}
DisplayNames == {<<"A">>, <<"a">>, <<"A", "b">>, <<"b">>}
LabelIds == {<<"p">>, <<"q">>, <<"r">>, <<"s">>}
Entries == [id : LabelIds, display_name : DisplayNames]
Tables == SeqsUpTo(Entries, MaxTable)

(***************************************************************************)
(* Resolver runs: one call of get_label_id on a table.                     *)
(***************************************************************************)
InitResolve ==
    /\ table \in Tables
    /\ dataset = <<>>
    /\ fs = None
    /\ csvOut = None
    /\ sys = None
    /\ pc = "idle"
    /\ args = None
    /\ ret = None
    /\ local = None
    /\ hist = None

CallResolve ==
    /\ pc = "idle"
    /\ \E class_name \in ClassNames, strict \in BOOLEAN :
        LET r == get_label_id(table, class_name, strict)
        IN  /\ args' = [class_name |-> class_name, strict |-> strict]
            /\ ret' = r
            /\ pc' = IF r.ok THEN "returned" ELSE "raised"
    /\ UNCHANGED <<table, dataset, fs, csvOut, sys, local, hist>>

NextResolve == CallResolve

SpecResolve == InitResolve /\ [][NextResolve]_vars

\* C2: a lookup that matches no entry of the table returns normally, with
\* an empty collection, in strict and in non-strict mode.
C2_ZeroMatchReturnsEmpty ==
    (pc # "idle" /\ MatchingIds(table, args.class_name, args.strict) = <<>>)
        => (pc = "returned" /\ ret.ok /\ ret.val = <<>>)

\* the identifiers of the entries whose display name equals / contains C
EqualIds(tbl, C) ==
    {tbl[i].id : i \in {j \in DOMAIN tbl : Lower(tbl[j].display_name) = Lower(C)}}

ContainingIds(tbl, C) ==
    {tbl[i].id : i \in {j \in DOMAIN tbl :
                            IsSubstring(Lower(C), Lower(tbl[j].display_name))}}

\* C3: resolve(C, strict=false) returns a superset of the strict result and
\* only identifiers of entries whose display name contains C, also when
\* exactly one entry matches.
C3_NonStrictSupersetOfStrict ==
    (pc # "idle" /\ ~args.strict)
        => /\ ret.ok
           /\ EqualIds(table, args.class_name) \subseteq Range(ret.val)
           /\ Range(ret.val) \subseteq ContainingIds(table, args.class_name)

\* C4: resolve(C, strict=true) returns exactly the identifiers of the
\* entries whose display name equals C case-insensitively.
C4_StrictReturnsExactMatches ==
    (pc # "idle" /\ args.strict)
        => /\ ret.ok
           /\ Range(ret.val) = EqualIds(table, args.class_name)

(***************************************************************************)
(* Dataset filter: create_csv.                                             *)
(***************************************************************************)
\* [get_label_id(b, strict) for b in args.blacklist]: a list of lists; the
\* first lookup that raises ends the comprehension.
RECURSIVE BlacklistedIds(_, _, _)
BlacklistedIds(tbl, blacklist, strict) ==
    IF blacklist = <<>> THEN Ok(<<>>)
    ELSE LET r == get_label_id(tbl, Head(blacklist), strict)
         IN  IF ~r.ok THEN r
             ELSE LET rest == BlacklistedIds(tbl, Tail(blacklist), strict)
                  IN  IF ~rest.ok THEN rest ELSE Ok(<<r.val>> \o rest.val)

\* set(row[3]).intersection(blacklisted_ids): set(row[3]) is the set of the
\* field's characters, and intersection hashes every element of its
\* argument; the elements of blacklisted_ids are lists, which are
\* unhashable, so a non-empty argument raises TypeError.
CharsIntersection(field, blacklisted_ids) ==
    IF blacklisted_ids = <<>> THEN Ok({c \in Range(field) : FALSE})
    ELSE Raise("TypeError")

\* label in row[3] and bool(set(row[3]).intersection(blacklisted_ids)) is False
RowCondition(row, label, blacklisted_ids) ==
    IF ~IsSubstring(label, row.labels) THEN Ok(FALSE)
    ELSE LET x == CharsIntersection(row.labels, blacklisted_ids)
         IN  IF ~x.ok THEN x ELSE Ok(x.val = {})

\* [row for row in reader for label in label_id if ...], from label j of
\* the first row on
RECURSIVE ToWrite(_, _, _, _)
ToWrite(rows, label_id, j, blacklisted_ids) ==
    IF rows = <<>> THEN Ok(<<>>)
    ELSE IF j > Len(label_id) THEN ToWrite(Tail(rows), label_id, 1, blacklisted_ids)
    ELSE LET c == RowCondition(Head(rows), label_id[j], blacklisted_ids)
         IN  IF ~c.ok THEN c
             ELSE LET rest == ToWrite(rows, label_id, j + 1, blacklisted_ids)
                  IN  IF ~rest.ok THEN rest
                      ELSE Ok((IF c.val THEN <<Head(rows)>> ELSE <<>>) \o rest.val)

\* create_csv: the result and the content of ./data/<class_name>.csv after
\* the call.  The file is opened for writing (truncated) only once all the
\* lookups have returned; writerows runs only if the comprehension did not
\* raise.
create_csv(tbl, rows, class_name, strict, blacklist, oldCsv) ==
    LET label_id == get_label_id(tbl, class_name, strict)
    IN  IF ~label_id.ok THEN [res |-> label_id, csv |-> oldCsv]
        ELSE LET blacklisted_ids == BlacklistedIds(tbl, blacklist, strict)
             IN  IF ~blacklisted_ids.ok THEN [res |-> blacklisted_ids, csv |-> oldCsv]
                 ELSE LET to_write == ToWrite(rows, label_id.val, 1, blacklisted_ids.val)
                      IN  IF ~to_write.ok THEN [res |-> to_write, csv |-> <<>>]
                          ELSE [res |-> Ok(class_name), csv |-> to_write.val]

(***************************************************************************)
(* Identifier grouper: get_yt_ids.                                         *)
(***************************************************************************)
\* the keys of {label: [] for label in label_ids}, in insertion order
RECURSIVE DictKeys(_, _)
DictKeys(label_ids, seen) ==
    IF label_ids = <<>> THEN <<>>
    ELSE IF Head(label_ids) \in seen THEN DictKeys(Tail(label_ids), seen)
    ELSE <<Head(label_ids)>> \o DictKeys(Tail(label_ids), seen \cup {Head(label_ids)})

\* how often `label` occurs in label_ids
RECURSIVE Occurrences(_, _)
Occurrences(label_ids, label) ==
    IF label_ids = <<>> THEN 0
    ELSE (IF Head(label_ids) = label THEN 1 ELSE 0) + Occurrences(Tail(label_ids), label)

RECURSIVE Repeat(_, _)
Repeat(x, n) == IF n = 0 THEN <<>> ELSE <<x>> \o Repeat(x, n - 1)

\* yt_ids[label] after the comprehension: row[0] of every row with
\* label in row[3], appended once per occurrence of label in label_ids
RECURSIVE Collected(_, _, _)
Collected(rows, label_ids, label) ==
    IF rows = <<>> THEN <<>>
    ELSE (IF IsSubstring(label, Head(rows).labels)
          THEN Repeat(Head(rows).yt, Occurrences(label_ids, label)) ELSE <<>>)
         \o Collected(Tail(rows), label_ids, label)

\* get_yt_ids: the dict as the sequence of its items.  The first key whose
\* list is empty is popped, and the print(yt_ids[label]) that follows reads
\* the popped key: KeyError.
get_yt_ids(label_ids, rows) ==
    LET keys == DictKeys(label_ids, {})
        yt_ids == [k \in DOMAIN keys |->
                     [label |-> keys[k], ids |-> Collected(rows, label_ids, keys[k])]]
    IN  IF \E k \in DOMAIN yt_ids : yt_ids[k].ids = <<>> THEN Raise("KeyError")
        ELSE Ok(yt_ids)

(***************************************************************************)
(* Metadata tables and the fixture label-index tables of the filter,       *)
(* grouper, find and download runs.                                        *)
(***************************************************************************)
YtIds == {<<"v">>, <<"w">>}
Starts == {<<"0">>}
RawFields == {Join(l) : l \in (SeqsUpTo(LabelIds, 2) \ {<<>>})}
Rows == [yt : YtIds, start : Starts, labels : RawFields]
\* every media id occurs in at most one row
Datasets ==
    {d \in SeqsUpTo(Rows, MaxRows) :
        \A i, j \in DOMAIN d : i # j => d[i].yt # d[j].yt}

Entry(id, display_name) == [id |-> id, display_name |-> display_name]
FixtureTables ==
    { <<Entry(<<"p">>, <<"a">>), Entry(<<"q">>, <<"A">>),
        Entry(<<"r">>, <<"b">>), Entry(<<"s">>, <<"B">>)>>,
      <<Entry(<<"p">>, <<"a">>), Entry(<<"q">>, <<"A", "b">>),
        Entry(<<"r">>, <<"b">>)>> }
Blacklists == SeqsUpTo(ClassNames, 1)

InitFilter ==
    /\ table \in FixtureTables
    /\ dataset \in Datasets
    /\ fs = None
    /\ csvOut = None
    /\ sys = None
    /\ pc = "idle"
    /\ args = None
    /\ ret = None
    /\ local = None
    /\ hist = None

CallCreateCsv ==
    /\ pc = "idle"
    /\ \E class_name \in ClassNames, strict \in BOOLEAN, blacklist \in Blacklists :
        LET r == create_csv(table, dataset, class_name, strict, blacklist, csvOut)
        IN  /\ args' = [class_name |-> class_name, strict |-> strict,
                        blacklist |-> blacklist]
            /\ ret' = r.res
            /\ csvOut' = r.csv
            /\ pc' = IF r.res.ok THEN "returned" ELSE "raised"
    /\ UNCHANGED <<table, dataset, fs, sys, local, hist>>

NextFilter == CallCreateCsv

SpecFilter == InitFilter /\ [][NextFilter]_vars

InitGroup ==
    /\ table = <<>>
    /\ dataset \in Datasets
    /\ fs = None
    /\ csvOut = None
    /\ sys = None
    /\ pc = "idle"
    /\ args = None
    /\ ret = None
    /\ local = None
    /\ hist = None

CallGetYtIds ==
    /\ pc = "idle"
    /\ \E label_ids \in SeqsUpTo(LabelIds, 2) :
        LET r == get_yt_ids(label_ids, dataset)
        IN  /\ args' = [label_ids |-> label_ids]
            /\ ret' = r
            /\ pc' = IF r.ok THEN "returned" ELSE "raised"
    /\ UNCHANGED <<table, dataset, fs, csvOut, sys, local, hist>>

NextGroup == CallGetYtIds

SpecGroup == InitGroup /\ [][NextGroup]_vars

\* the wanted and the blacklisted identifiers of a create_csv call: the
\* identifiers the class names resolve to
WantedIds == Range(MatchingIds(table, args.class_name, args.strict))

BlackIds ==
    UNION {Range(MatchingIds(table, args.blacklist[k], args.strict)) :
              k \in DOMAIN args.blacklist}

\* a row's label set contains an identifier: substring containment in the
\* raw label field
RowHas(row, ids) == \E id \in ids : IsSubstring(id, row.labels)

\* every class name of the call resolves (get_label_id returns)
LookupsReturn ==
    /\ get_label_id(table, args.class_name, args.strict).ok
    /\ \A k \in DOMAIN args.blacklist :
          get_label_id(table, args.blacklist[k], args.strict).ok

\* C1: the filter outputs a row if and only if the row carries a wanted
\* identifier and no blacklisted identifier (so a row with a wanted and a
\* blacklisted label is excluded, and blacklist = wanted gives no output).
C1_FilterKeepsWantedNotBlacklisted ==
    (pc # "idle" /\ LookupsReturn)
        => /\ pc = "returned"
           /\ \A i \in DOMAIN dataset :
                 (dataset[i] \in Range(csvOut))
                     <=> (RowHas(dataset[i], WantedIds) /\ ~RowHas(dataset[i], BlackIds))

\* s is a subsequence of t without repetition: strictly increasing
\* positions of t give s
RECURSIVE IsStableSubsequence(_, _)
IsStableSubsequence(s, t) ==
    IF s = <<>> THEN TRUE
    ELSE IF t = <<>> THEN FALSE
    ELSE IF Head(s) = Head(t) THEN IsStableSubsequence(Tail(s), Tail(t))
    ELSE IsStableSubsequence(s, Tail(t))

\* C8: the output is a stable filtering of the input: same relative order,
\* every input row at most once, also for a row with several wanted labels.
C8_FilterStableNoDuplicates ==
    pc = "returned" => IsStableSubsequence(csvOut, dataset)

\* C5: get_yt_ids completes, every key of the mapping has media ids, a
\* label with no media id is absent and a label with media ids is present.
C5_GroupDropsEmptyLabels ==
    pc # "idle"
        => /\ pc = "returned"
           /\ \A k \in DOMAIN ret.val : ret.val[k].ids # <<>>
           /\ \A label \in Range(args.label_ids) :
                 (\E k \in DOMAIN ret.val : ret.val[k].label = label)
                     <=> (\E i \in DOMAIN dataset : IsSubstring(label, dataset[i].labels))

(***************************************************************************)
(* File organizer: sort_files.                                             *)
(*                                                                         *)
(* fs has two directories: src (file_dir) and dst (a destination directory *)
(* other than file_dir).  A directory maps entry names to nodes; a node is *)
(* a regular file with its data, or a subdirectory with its files.  Names  *)
(* hold no path separator.                                                 *)
(***************************************************************************)
EmptyFn == [x \in {} |-> None]
FileNode(data) == [kind |-> "file", data |-> data, files |-> EmptyFn]
DirNode(files) == [kind |-> "dir", data |-> None, files |-> files]

Done(f) == [ok |-> TRUE, err |-> None, fs |-> f]
Fail(e, f) == [ok |-> FALSE, err |-> e, fs |-> f]

\* os.path.exists(dst_dir + "/" + label)
PathExists(f, root, label) == label \in DOMAIN f[root]

\* the guard of os.makedirs: a plausible slip creates unconditionally
MakedirsAlways(f, root, label) == TRUE

\* if not os.path.exists(dst_dir + "/" + label)
NeedsMakedirs(f, root, label) == ~PathExists(f, root, label)

\* os.makedirs(dst_dir + "/" + label): FileExistsError on an existing path
makedirs(f, root, label) ==
    IF PathExists(f, root, label) THEN Fail("FileExistsError", f)
    ELSE Done([f EXCEPT ![root] = (label :> DirNode(EmptyFn)) @@ @])

\* the first loop, from item k of the dict on
RECURSIVE MakeLabelDirs(_, _, _, _)
MakeLabelDirs(f, yt_ids, root, k) ==
    IF k > Len(yt_ids) THEN Done(f)
    ELSE IF NeedsMakedirs(f, root, yt_ids[k].label)
         THEN LET m == makedirs(f, root, yt_ids[k].label)
              IN  IF ~m.ok THEN m ELSE MakeLabelDirs(m.fs, yt_ids, root, k + 1)
         ELSE MakeLabelDirs(f, yt_ids, root, k + 1)

\* a plausible slip: all() for any()
EntryMatchesAll(file, yt_id_list) ==
    \A k \in DOMAIN yt_id_list : IsSubstring(yt_id_list[k], file)

\* any(yt_id in file for yt_id in yt_id_list)
EntryMatches(file, yt_id_list) ==
    \E k \in DOMAIN yt_id_list : IsSubstring(yt_id_list[k], file)

\* shutil.copyfile(file_dir/file, dst_dir/label/file): the source is opened
\* for reading first (IsADirectoryError on a directory), then the
\* destination for writing (NotADirectoryError when dst_dir/label is a
\* regular file); an existing destination file is overwritten.
copyfile(f, file, root, label) ==
    IF f.src[file].kind = "dir" THEN Fail("IsADirectoryError", f)
    ELSE IF ~PathExists(f, root, label) THEN Fail("FileNotFoundError", f)
    ELSE IF f[root][label].kind = "file" THEN Fail("NotADirectoryError", f)
    ELSE Done([f EXCEPT ![root][label].files = (file :> f.src[file].data) @@ @])

\* the inner loop for one directory entry, from item k of the dict on
RECURSIVE CopyToLabels(_, _, _, _, _)
CopyToLabels(f, file, yt_ids, root, k) ==
    IF k > Len(yt_ids) THEN Done(f)
    ELSE IF EntryMatches(file, yt_ids[k].ids)
         THEN LET c == copyfile(f, file, root, yt_ids[k].label)
              IN  IF ~c.ok THEN c ELSE CopyToLabels(c.fs, file, yt_ids, root, k + 1)
         ELSE CopyToLabels(f, file, yt_ids, root, k + 1)

\* the outer loop over a set of entries none of which raises; their copies
\* go to different paths, so the order does not matter
RECURSIVE CopyEntries(_, _, _, _)
CopyEntries(f, files, yt_ids, root) ==
    IF files = {} THEN f
    ELSE LET file == CHOOSE x \in files : TRUE
         IN  CopyEntries(CopyToLabels(f, file, yt_ids, root, 1).fs,
                         files \ {file}, yt_ids, root)

\* sort_files: every outcome [ok, err, fs].  os.listdir is read after the
\* label directories are made and returns the entries in arbitrary order:
\* when an entry raises, any set of the other entries may already have been
\* copied.  Whether an entry raises depends only on the kinds of the
\* top-level nodes, which copying does not change.
sort_files(f, yt_ids, root) ==
    LET m == MakeLabelDirs(f, yt_ids, root, 1)
    IN  IF ~m.ok THEN {m}
        ELSE LET listing == DOMAIN m.fs.src
                 raising == {file \in listing :
                                ~CopyToLabels(m.fs, file, yt_ids, root, 1).ok}
             IN  IF raising = {}
                 THEN {Done(CopyEntries(m.fs, listing, yt_ids, root))}
                 ELSE {CopyToLabels(CopyEntries(m.fs, before, yt_ids, root),
                                    file, yt_ids, root, 1) :
                          file \in raising, before \in SUBSET (listing \ raising)}

(***************************************************************************)
(* Organizer runs: sort_files called up to MaxRuns times on one            *)
(* filesystem.                                                             *)
(***************************************************************************)
FileNames == {<<"v">>, <<"v", "w">>}
Labels == {<<"L">>, <<"v">>}
IdLists == {<<<<"v">>>>, <<<<"w">>>>, <<<<"v">>, <<"w">>>>}
GroupItems == [label : Labels, ids : IdLists]
\* dicts: the keys are distinct
Groups ==
    {g \in SeqsUpTo(GroupItems, 2) :
        \A i, j \in DOMAIN g : i # j => g[i].label # g[j].label}

\* the source directory holds regular files (the data of a file is its own)
\* and subdirectories
SourceDirs ==
    UNION {[names -> {"file", "dir"}] : names \in SUBSET FileNames}

SourceNode(name, kind) ==
    IF kind = "file" THEN FileNode(name) ELSE DirNode(EmptyFn)

InitOrganize ==
    /\ table = <<>>
    /\ dataset = <<>>
    /\ \E kinds \in SourceDirs :
          fs = [src |-> [n \in DOMAIN kinds |-> SourceNode(n, kinds[n])],
                dst |-> EmptyFn]
    /\ csvOut = None
    /\ sys = None
    /\ pc = "idle"
    /\ args = None
    /\ ret = None
    /\ local = None
    /\ hist = [runs |-> 0, fsBefore |-> None, prevStatus |-> None, rerun |-> FALSE]

\* dst_dir = None (or file_dir itself) is root "src"
CallSortFiles ==
    /\ pc \in {"idle", "returned", "raised"}
    /\ hist.runs < MaxRuns
    /\ \E yt_ids \in Groups, root \in {"src", "dst"} :
        \E o \in sort_files(fs, yt_ids, root) :
            /\ args' = [yt_ids |-> yt_ids, dst_dir |-> root]
            /\ fs' = o.fs
            /\ ret' = [ok |-> o.ok, err |-> o.err, val |-> None]
            /\ pc' = IF o.ok THEN "returned" ELSE "raised"
            /\ hist' = [runs |-> hist.runs + 1,
                        fsBefore |-> fs,
                        prevStatus |-> pc,
                        rerun |-> /\ hist.runs > 0
                                  /\ args = [yt_ids |-> yt_ids, dst_dir |-> root]]
    /\ UNCHANGED <<table, dataset, csvOut, sys, local>>

NextOrganize == CallSortFiles

SpecOrganize == InitOrganize /\ [][NextOrganize]_vars

\* the data of dst_dir/label/file, NoFile when there is no such file
NoFile == <<>>

FileAt(f, root, label, file) ==
    IF /\ label \in DOMAIN f[root]
       /\ f[root][label].kind = "dir"
       /\ file \in DOMAIN f[root][label].files
    THEN f[root][label].files[file]
    ELSE NoFile

\* dst_dir/label holds a copy of the source entry under its own name
HasCopy(f, root, label, file) ==
    /\ f.src[file].kind = "file"
    /\ FileAt(f, root, label, file) = f.src[file].data

\* the entry's name contains, as a substring, a media id of the group
NameHasMediaId(file, ids) == \E id \in Range(ids) : IsSubstring(id, file)

\* C6 as stated: after sort_files completes, dst_dir/L holds a copy of
\* entry E if and only if E's name contains a media id of L's group.
C6_CopyIffMatch ==
    pc = "returned"
        => \A file \in DOMAIN fs.src : \A k \in DOMAIN args.yt_ids :
              HasCopy(fs, args.dst_dir, args.yt_ids[k].label, file)
                  <=> NameHasMediaId(file, args.yt_ids[k].ids)

\* C6 amended: after sort_files completes, dst_dir/L holds a copy of every
\* entry whose name contains a media id of L's group (so an entry matching
\* several labels is in each of their directories), and for an entry that
\* matches no media id of L's group dst_dir/L/<name> is as it was before the
\* call: absent, or the file an earlier call left there.
C6_CopyIfMatchElseUntouched ==
    pc = "returned"
        => \A file \in DOMAIN fs.src : \A k \in DOMAIN args.yt_ids :
              LET label == args.yt_ids[k].label
              IN  IF NameHasMediaId(file, args.yt_ids[k].ids)
                  THEN HasCopy(fs, args.dst_dir, label, file)
                  ELSE FileAt(fs, args.dst_dir, label, file)
                           = FileAt(hist.fsBefore, args.dst_dir, label, file)

\* a completed call that copied one entry into two label directories and
\* left in place a file of an earlier call that matches nothing now
C6_Witness ==
    /\ pc = "returned"
    /\ \E file \in DOMAIN fs.src :
          /\ Len(args.yt_ids) = 2
          /\ \A k \in DOMAIN args.yt_ids :
                /\ NameHasMediaId(file, args.yt_ids[k].ids)
                /\ HasCopy(fs, args.dst_dir, args.yt_ids[k].label, file)
    /\ \E file \in DOMAIN fs.src : \E k \in DOMAIN args.yt_ids :
          /\ ~NameHasMediaId(file, args.yt_ids[k].ids)
          /\ FileAt(fs, args.dst_dir, args.yt_ids[k].label, file) # NoFile

get_label_id_without_strict(tbl, label) == Raise("TypeError")

\* the body of the loop for one label: every outcome [ok, err, fs]
find_body(tbl, rows, f, label, root) ==
    LET class_id == get_label_id_without_strict(tbl, label)
    IN  IF ~class_id.ok THEN {Fail(class_id.err, f)}
        ELSE LET youtube_id == get_yt_ids(class_id.val, rows)
             IN  IF ~youtube_id.ok THEN {Fail(youtube_id.err, f)}
                 ELSE sort_files(f, youtube_id.val, root)

FindDatasets == {d \in Datasets : Len(d) <= 1}
LabelLists == SeqsUpTo(ClassNames, 2)

InitFind ==
    /\ table \in FixtureTables
    /\ dataset \in FindDatasets
    /\ \E kinds \in SourceDirs :
          fs = [src |-> [n \in DOMAIN kinds |-> SourceNode(n, kinds[n])],
                dst |-> EmptyFn]
    /\ csvOut = None
    /\ sys = None
    /\ pc = "idle"
    /\ args = None
    /\ ret = None
    /\ local = None
    /\ hist = None

CallFind ==
    /\ pc = "idle"
    /\ \E labels \in LabelLists, root \in {"src", "dst"} :
          args' = [labels |-> labels, dst_dir |-> root]
    /\ local' = [i |-> 1]
    /\ pc' = "find_loop"
    /\ UNCHANGED <<table, dataset, fs, csvOut, sys, ret, hist>>

FindIter ==
    /\ pc = "find_loop"
    /\ local.i <= Len(args.labels)
    /\ \E o \in find_body(table, dataset, fs, args.labels[local.i], args.dst_dir) :
          /\ fs' = o.fs
          /\ IF o.ok
             THEN /\ local' = [i |-> local.i + 1]
                  /\ UNCHANGED <<pc, ret>>
             ELSE /\ pc' = "raised"
                  /\ ret' = Raise(o.err)
                  /\ UNCHANGED local
    /\ UNCHANGED <<table, dataset, csvOut, sys, args, hist>>

FindReturn ==
    /\ pc = "find_loop"
    /\ local.i > Len(args.labels)
    /\ pc' = "returned"
    /\ ret' = Ok(None)
    /\ UNCHANGED <<table, dataset, fs, csvOut, sys, args, local, hist>>

NextFind == CallFind \/ FindIter \/ FindReturn

SpecFind == InitFind /\ [][NextFind]_vars

\* C9: in a find run with a requested label that matches no identifier,
\* the pipeline does not stop in an error: it goes on through every
\* requested label and returns, with nothing written for that label.
C9_FindGoesOnPastUnresolvedLabel ==
    (/\ pc \in {"returned", "raised"}
     /\ \E k \in DOMAIN args.labels : MatchingIds(table, args.labels[k], FALSE) = <<>>)
        => /\ pc = "returned"
           /\ local.i = Len(args.labels) + 1

(***************************************************************************)
(* download: create_csv, then one os.system call per row of the new csv.   *)
(***************************************************************************)
\* the ffmpeg command of a row: -ss row[1], the video row[0], and the
\* output path dst_dir + "/" + row[0] + "_" + row[1] + ".wav" with
\* dst_dir = os.path.join(args.destination_dir, label)
Command(row, label) ==
    [ss |-> row.start,
     yt |-> row.yt,
     out |-> <<"destination_dir", label,
               row.yt \o <<"_">> \o row.start \o <<".", "w", "a", "v">> >>]

InitDownload ==
    /\ table \in FixtureTables
    /\ dataset \in Datasets
    /\ fs = None
    /\ csvOut = None
    /\ sys = [log |-> <<>>, busy |-> FALSE, written |-> {}, dirs |-> {}]
    /\ pc = "idle"
    /\ args = None
    /\ ret = None
    /\ local = None
    /\ hist = None

\* lines 28-35: create_csv, the destination directory, the reader
CallDownload ==
    /\ pc = "idle"
    /\ \E label \in ClassNames, strict \in BOOLEAN, blacklist \in Blacklists :
        LET r == create_csv(table, dataset, label, strict, blacklist, csvOut)
        IN  /\ args' = [class_name |-> label, strict |-> strict,
                        blacklist |-> blacklist]
            /\ csvOut' = r.csv
            /\ IF r.res.ok
               THEN /\ sys' = [sys EXCEPT !.dirs = @ \cup {<<"destination_dir", label>>}]
                    /\ local' = [rows |-> r.csv, i |-> 1]
                    /\ pc' = "download_loop"
                    /\ UNCHANGED ret
               ELSE /\ pc' = "raised"
                    /\ ret' = r.res
                    /\ UNCHANGED <<sys, local>>
    /\ UNCHANGED <<table, dataset, fs, hist>>

\* os.system(...) is entered for the next row
FetchStart ==
    /\ pc = "download_loop"
    /\ local.i <= Len(local.rows)
    /\ sys' = [sys EXCEPT !.log = Append(@, Command(local.rows[local.i], args.class_name)),
                          !.busy = TRUE]
    /\ pc' = "in_os_system"
    /\ UNCHANGED <<table, dataset, fs, csvOut, args, ret, local, hist>>

\* os.system returns; the exit status is not looked at, and the command
\* may or may not have written its file
FetchReturn ==
    /\ pc = "in_os_system"
    /\ \E wrote \in BOOLEAN :
          sys' = [sys EXCEPT !.busy = FALSE,
                             !.written = IF wrote THEN @ \cup {sys.log[Len(sys.log)].out}
                                         ELSE @]
    /\ local' = [local EXCEPT !.i = @ + 1]
    /\ pc' = "download_loop"
    /\ UNCHANGED <<table, dataset, fs, csvOut, args, ret, hist>>

DownloadReturn ==
    /\ pc = "download_loop"
    /\ local.i > Len(local.rows)
    /\ pc' = "returned"
    /\ ret' = Ok(None)
    /\ UNCHANGED <<table, dataset, fs, csvOut, sys, args, local, hist>>

NextDownload == CallDownload \/ FetchStart \/ FetchReturn \/ DownloadReturn

SpecDownload == InitDownload /\ [][NextDownload]_vars

\* the rows the filter selects: a wanted identifier and no blacklisted one
SelectedYts ==
    {dataset[i].yt : i \in {j \in DOMAIN dataset :
                              RowHas(dataset[j], WantedIds) /\ ~RowHas(dataset[j], BlackIds)}}

\* C10: in download the fetcher runs one call at a time, in the order of
\* the metadata rows, once per selected clip (no clip twice), each writing
\* to <destination_dir>/<label>/<media_id>_<start_offset>.wav; when
\* download returns every selected clip has been fetched.
C10_FetchOncePerClipInOrder ==
    pc \in {"download_loop", "in_os_system", "returned"}
        => /\ \A i, j \in DOMAIN sys.log : i # j => sys.log[i].yt # sys.log[j].yt
           /\ IsStableSubsequence([k \in DOMAIN sys.log |-> sys.log[k].yt],
                                  [k \in DOMAIN dataset |-> dataset[k].yt])
           /\ \A k \in DOMAIN sys.log :
                 \E i \in DOMAIN dataset :
                    /\ dataset[i].yt = sys.log[k].yt
                    /\ sys.log[k].out =
                          <<"destination_dir", args.class_name,
                            dataset[i].yt \o <<"_">> \o dataset[i].start
                                \o <<".", "w", "a", "v">> >>
           /\ sys.busy <=> (pc = "in_os_system")
           /\ pc = "returned" => {sys.log[k].yt : k \in DOMAIN sys.log} = SelectedYts

====
